---- MODULE Spec2Model ----
(***************************************************************************)
(* Model of app.py: the Flask routes of the file compressor, one browser   *)
(* session (the signed session cookie), the server's wall clock, and the   *)
(* last request/response pair.  Each route handler is one atomic action:   *)
(* the requests of a session are handled one at a time.  The clock may     *)
(* advance between two reads of datetime.now() and never goes back.        *)
(* Text (file names, paths, format tokens) is a sequence of one-character  *)
(* strings so that rsplit, lower, join, splitext and basename are computed *)
(* as the code computes them.                                              *)
(***************************************************************************)
EXTENDS Integers, Sequences, FiniteSets, TLC

VARIABLES session, now, log, client

vars == <<session, now, log, client>>

----------------------------------------------------------------------------
(* Bounds of the model *)

\* calendar dates are 1..MaxDate (the "%Y-%m-%d" strings, in order)
MaxDate == 2

\* a POST carries at most MaxFiles files
MaxFiles == 2

Dates == 1..MaxDate

----------------------------------------------------------------------------
(* Program constants *)

FREE_LIMIT_PER_DAY == 2

FREE_SIZE_LIMIT == 2 * 1024 * 1024

PREMIUM_SIZE_LIMIT == 50 * 1024 * 1024

MAX_CONTENT_LENGTH == 50 * 1024 * 1024

UPLOAD_FOLDER == <<"u","p","l","o","a","d","s">>

ALLOWED ==
  { <<"p","n","g">>, <<"j","p","g">>, <<"j","p","e","g">>,
    <<"g","i","f">>, <<"p","d","f">>, <<"z","i","p">> }

----------------------------------------------------------------------------
(* Text helpers: str.lower, str.upper, str.rsplit, os.path.*               *)

LowerAlpha ==
  <<"a","b","c","d","e","f","g","h","i","j","k","l","m",
    "n","o","p","q","r","s","t","u","v","w","x","y","z">>

UpperAlpha ==
  <<"A","B","C","D","E","F","G","H","I","J","K","L","M",
    "N","O","P","Q","R","S","T","U","V","W","X","Y","Z">>

lower(s) ==
  [i \in 1..Len(s) |->
     IF \E k \in 1..26 : UpperAlpha[k] = s[i]
       THEN LowerAlpha[CHOOSE k \in 1..26 : UpperAlpha[k] = s[i]]
       ELSE s[i]]

upper(s) ==
  [i \in 1..Len(s) |->
     IF \E k \in 1..26 : LowerAlpha[k] = s[i]
       THEN UpperAlpha[CHOOSE k \in 1..26 : LowerAlpha[k] = s[i]]
       ELSE s[i]]

\* str.rfind, 1-based; 0 when the character does not occur
rfind(s, c) ==
  IF \E i \in 1..Len(s) : s[i] = c
    THEN CHOOSE i \in 1..Len(s) : s[i] = c /\ \A j \in (i+1)..Len(s) : s[j] # c
    ELSE 0

\* allowed_file without the allow-list test
allowed_file_any_ext(filename) == rfind(filename, ".") > 0

\* '.' in filename and filename.rsplit('.', 1)[1].lower() in ALLOWED
allowed_file(filename) ==
  /\ rfind(filename, ".") > 0
  /\ lower(SubSeq(filename, rfind(filename, ".") + 1, Len(filename))) \in ALLOWED

\* posixpath.join(a, p)
path_join(a, p) ==
  IF Len(p) > 0 /\ p[1] = "/" THEN p
  ELSE IF Len(a) = 0 \/ a[Len(a)] = "/" THEN a \o p
  ELSE a \o <<"/">> \o p

\* posixpath.basename(p)
basename(p) == SubSeq(p, rfind(p, "/") + 1, Len(p))

\* posixpath.dirname(p), for paths whose head does not end in a slash
dirname(p) == SubSeq(p, 1, rfind(p, "/") - 1)

\* posixpath.splitext(p)[0]: the extension starts at the last dot of the
\* last component, unless that component has only leading dots before it
splitext_root(p) ==
  LET sep == rfind(p, "/")
      dot == rfind(p, ".")
  IN IF dot > sep /\ \E k \in (sep+1)..(dot-1) : p[k] # "."
       THEN SubSeq(p, 1, dot - 1)
       ELSE p

----------------------------------------------------------------------------
(* The uploads a client may send.  A file is its client-supplied name, its *)
(* length in bytes, and whether its content is an image PIL can decode and *)
(* re-encode.                                                              *)

MiB == 1024 * 1024

a_png == [filename |-> <<"a",".","p","n","g">>, size |-> MiB, img |-> TRUE]

b_JPG == [filename |-> <<"b",".","J","P","G">>, size |-> MiB + 1, img |-> TRUE]

c_pdf == [filename |-> <<"c",".","p","d","f">>, size |-> 1024, img |-> FALSE]

v_exe == [filename |-> <<"v",".","e","x","e">>, size |-> 1024, img |-> FALSE]

up_a_png == [filename |-> <<".",".","/","a",".","p","n","g">>, size |-> 1024, img |-> TRUE]

z_zip == [filename |-> <<"z",".","z","i","p">>, size |-> 3 * MiB, img |-> FALSE]

h_zip == [filename |-> <<"h",".","z","i","p">>, size |-> 50 * MiB + 1, img |-> FALSE]

d_a_png == [filename |-> <<"d","/","a",".","p","n","g">>, size |-> 1024, img |-> TRUE]

w_exe == [filename |-> <<"w",".","e","x","e">>, size |-> 3 * MiB, img |-> FALSE]

Batches(pool) == UNION { [1..n -> pool] : n \in 0..MaxFiles }

\* request.form.get("format") is a text; <<>> is a missing or empty field.

\* What one browser has to send: the files on its disk and the values its
\* form offers for "format".  A session is driven by one of these clients.
Clients ==
  { [files |-> {a_png, b_JPG},    formats |-> {<<"n","o","n","e">>, <<"p","n","g">>}],
    [files |-> {c_pdf, v_exe},    formats |-> {<<>>, <<"j","p","e","g">>}],
    [files |-> {up_a_png, c_pdf}, formats |-> {<<"j","p","e","g">>}],
    [files |-> {z_zip, h_zip},    formats |-> {<<"n","o","n","e">>}],
    [files |-> {d_a_png, v_exe},  formats |-> {<<>>}],
    [files |-> {c_pdf, w_exe},    formats |-> {<<"n","o","n","e">>}] }

\* the formats PIL's Image.save has an encoder for, among the ones above
PIL_SAVE == { <<"J","P","E","G">>, <<"P","N","G">>, <<"G","I","F">> }

\* directories that exist below the working directory (os.makedirs)
ExistingDirs ==
  { UPLOAD_FOLDER, UPLOAD_FOLDER \o <<"/",".",".">> }

----------------------------------------------------------------------------
(* Session helpers.  session.uploads maps a date to session["uploads_<date>"] *)
(* and is defined only on the dates whose key is in the session.           *)

\* session.get(f"uploads_{today}", 0)
get_uploads(sess, today) ==
  IF today \in DOMAIN sess.uploads THEN sess.uploads[today] ELSE 0

set_uploads(sess, today, v) ==
  [sess EXCEPT !.uploads =
     [d \in (DOMAIN sess.uploads) \cup {today} |->
        IF d = today THEN v ELSE sess.uploads[d]]]

\* check_free_limit comparing with <= instead of <
check_free_limit_lax(sess, today) ==
  LET s1 == IF today \notin DOMAIN sess.uploads
              THEN set_uploads(sess, today, 0) ELSE sess
  IN [session |-> s1, ok |-> s1.uploads[today] <= FREE_LIMIT_PER_DAY]

\* check_free_limit setting the counter to 0 whether or not the key exists
check_free_limit_reset(sess, today) ==
  [session |-> set_uploads(sess, today, 0), ok |-> 0 < FREE_LIMIT_PER_DAY]

\* check_free_limit(): the session after the call, and the value returned
check_free_limit(sess, today) ==
  LET s1 == IF today \notin DOMAIN sess.uploads
              THEN set_uploads(sess, today, 0) ELSE sess
  IN [session |-> s1, ok |-> s1.uploads[today] < FREE_LIMIT_PER_DAY]

\* increment_upload_count forgetting the stored value
increment_upload_count_overwrite(sess, today) == set_uploads(sess, today, 1)

increment_upload_count(sess, today) ==
  set_uploads(sess, today, get_uploads(sess, today) + 1)

RECURSIVE total_size(_)
total_size(files) ==
  IF Len(files) = 0 THEN 0
  ELSE files[1].size + total_size(Tail(files))

\* Content-Length of the multipart body: the file bytes plus at least one
\* byte of framing per part
content_length(files) == total_size(files) + Len(files)

----------------------------------------------------------------------------
(* The archive loop of compressor(): one iteration for file number i.      *)
(* acc.entries is the ZIP so far, acc.flashes the flashed messages,        *)
(* acc.crashed tells that an exception has left the loop.                  *)

\* the loop body leaving out a file whose conversion failed
zip_file_skip(f, i, fmt, acc) ==
  IF acc.crashed THEN acc
  ELSE IF ~allowed_file(f.filename)
    THEN [acc EXCEPT !.flashes = Append(@, [msg |-> "not_allowed", file |-> i])]
  ELSE
    LET file_path == path_join(UPLOAD_FOLDER, f.filename)
        saved     == dirname(file_path) \in ExistingDirs
        convert   == fmt # <<>> /\ fmt # <<"n","o","n","e">>
        new_path  == splitext_root(file_path) \o <<".">> \o fmt
        converted == convert /\ f.img /\ upper(fmt) \in PIL_SAVE
    IN IF ~saved THEN [acc EXCEPT !.crashed = TRUE]
       ELSE IF convert /\ ~converted
         THEN [acc EXCEPT !.flashes = Append(@, [msg |-> "convert_failed", file |-> i])]
       ELSE IF converted /\ new_path = file_path
         THEN [acc EXCEPT !.crashed = TRUE]
       ELSE [acc EXCEPT
               !.entries = Append(@, [name |-> basename(IF converted THEN new_path
                                                                      ELSE file_path),
                                      file |-> i,
                                      enc  |-> IF converted THEN upper(fmt)
                                                            ELSE <<>>])]

zip_file(f, i, fmt, acc) ==
  IF acc.crashed THEN acc
  ELSE IF ~allowed_file(f.filename)
    THEN [acc EXCEPT !.flashes = Append(@, [msg |-> "not_allowed", file |-> i])]
  ELSE
    LET file_path == path_join(UPLOAD_FOLDER, f.filename)
        saved     == dirname(file_path) \in ExistingDirs
        fs1       == {file_path}
        convert   == fmt # <<>> /\ fmt # <<"n","o","n","e">>
        new_path  == splitext_root(file_path) \o <<".">> \o fmt
        converted == convert /\ f.img /\ upper(fmt) \in PIL_SAVE
        fs2       == IF converted THEN (fs1 \cup {new_path}) \ {file_path} ELSE fs1
        path2     == IF converted THEN new_path ELSE file_path
        flashes2  == IF convert /\ ~converted
                       THEN Append(acc.flashes, [msg |-> "convert_failed", file |-> i])
                       ELSE acc.flashes
    IN IF ~saved THEN [acc EXCEPT !.crashed = TRUE]
       ELSE IF path2 \notin fs2
         THEN [acc EXCEPT !.crashed = TRUE, !.flashes = flashes2]
       ELSE [acc EXCEPT
               !.flashes = flashes2,
               !.entries = Append(@, [name |-> basename(path2),
                                      file |-> i,
                                      enc  |-> IF converted THEN upper(fmt)
                                                            ELSE <<>>])]

RECURSIVE zip_files(_, _, _, _)
zip_files(files, i, fmt, acc) ==
  IF i > Len(files) THEN acc
  ELSE zip_files(files, i + 1, fmt, zip_file(files[i], i, fmt, acc))

----------------------------------------------------------------------------
(* The last request and its response.  clock is the sequence of dates the  *)
(* handler read from datetime.now(), in order.                             *)

NoLog ==
  [ route      |-> "",
    method     |-> "",
    files      |-> <<>>,
    format     |-> <<>>,
    clock      |-> <<>>,
    is_premium |-> FALSE,
    used       |-> 0,
    remaining  |-> 0,
    total_size |-> 0,
    size_limit |-> 0,
    status     |-> "",
    entries    |-> <<>>,
    flashes    |-> <<>> ]

Page(route, method, status) ==
  [NoLog EXCEPT !.route = route, !.method = method, !.status = status]

Max(a, b) == IF a >= b THEN a ELSE b

\* the ceiling chosen without looking at the flag
size_limit_of_premium_only(is_premium) == PREMIUM_SIZE_LIMIT

size_limit_of_free_only(is_premium) == FREE_SIZE_LIMIT

\* size_limit = PREMIUM_SIZE_LIMIT if is_premium else FREE_SIZE_LIMIT
size_limit_of(is_premium) ==
  IF is_premium THEN PREMIUM_SIZE_LIMIT ELSE FREE_SIZE_LIMIT

\* if not is_premium and not check_free_limit(); chk is the call's outcome,
\* looked at only for a non-premium session
limit_reached(is_premium, chk) == ~is_premium /\ ~chk.ok

\* the counter incremented for every caller
count_upload_always(sess, is_premium, today) ==
  increment_upload_count(sess, today)

\* if not is_premium: increment_upload_count()
count_upload(sess, is_premium, today) ==
  IF ~is_premium THEN increment_upload_count(sess, today) ELSE sess

\* compressor(), POST branch.  d1, d2, d3 are what datetime.now() gives in
\* compressor, check_free_limit and increment_upload_count.
compressor_post(sess, files, fmt, d1, d2, d3) ==
  LET used       == get_uploads(sess, d1)
      is_premium == sess.premium
      size_limit == size_limit_of(is_premium)
      req == [NoLog EXCEPT
                !.route = "compressor", !.method = "POST",
                !.files = files, !.format = fmt, !.clock = <<d1>>,
                !.is_premium = is_premium, !.used = used,
                !.remaining = Max(0, FREE_LIMIT_PER_DAY - used)]
      chk == check_free_limit(sess, d2)
      acc == zip_files(files, 1, fmt,
                       [entries |-> <<>>, flashes |-> <<>>, crashed |-> FALSE])
  IN
  IF content_length(files) > MAX_CONTENT_LENGTH
    THEN [session |-> sess, log |-> [req EXCEPT !.status = "413"]]
  ELSE IF Len(files) = 0
    THEN [session |-> sess,
          log |-> [req EXCEPT !.status = "redirect_form",
                              !.flashes = <<[msg |-> "no_files", file |-> 0]>>]]
  ELSE IF total_size(files) > size_limit
    THEN [session |-> sess,
          log |-> [req EXCEPT !.status = "redirect_form",
                              !.total_size = total_size(files),
                              !.size_limit = size_limit,
                              !.flashes = <<[msg |-> "too_big", file |-> 0]>>]]
  ELSE IF limit_reached(is_premium, chk)
    THEN [session |-> chk.session,
          log |-> [req EXCEPT !.status = "redirect_premium",
                              !.clock = <<d1, d2>>,
                              !.total_size = total_size(files),
                              !.size_limit = size_limit,
                              !.flashes = <<[msg |-> "limit", file |-> 0]>>]]
  ELSE
    LET s1     == IF is_premium THEN sess ELSE chk.session
        clock1 == IF is_premium THEN <<d1>> ELSE <<d1, d2>>
        req1   == [req EXCEPT !.total_size = total_size(files),
                              !.size_limit = size_limit,
                              !.flashes = acc.flashes]
    IN IF acc.crashed
         THEN [session |-> s1,
               log |-> [req1 EXCEPT !.status = "500", !.clock = clock1]]
       ELSE [session |-> count_upload(s1, is_premium, d3),
             log |-> [req1 EXCEPT !.status = "archive",
                                  !.clock = IF is_premium THEN clock1
                                                          ELSE <<d1, d2, d3>>,
                                  !.entries = acc.entries]]

----------------------------------------------------------------------------
(* Initial state and routes *)

Init ==
  /\ session = [premium |-> FALSE, uploads |-> [d \in {} |-> 0]]
  /\ now = 1
  /\ log = NoLog
  /\ client \in Clients

home ==
  /\ log' = Page("home", "GET", "render")
  /\ UNCHANGED <<session, now, client>>

donate ==
  /\ log' = Page("donate", "GET", "render")
  /\ UNCHANGED <<session, now, client>>

\* stripe.checkout.Session.create either returns a session or raises
create_checkout_session ==
  /\ \E status \in {"redirect_checkout", "error_text"} :
       log' = Page("create_checkout_session", "POST", status)
  /\ UNCHANGED <<session, now, client>>

success_donation ==
  /\ log' = Page("success_donation", "GET", "render")
  /\ UNCHANGED <<session, now, client>>

compressor_GET ==
  \E d1 \in Dates :
    /\ now <= d1
    /\ now' = d1
    /\ log' = [Page("compressor", "GET", "render") EXCEPT
                 !.clock = <<d1>>,
                 !.is_premium = session.premium,
                 !.used = get_uploads(session, d1),
                 !.remaining = Max(0, FREE_LIMIT_PER_DAY - get_uploads(session, d1))]
    /\ UNCHANGED <<session, client>>

compressor_POST ==
  \E files \in Batches(client.files), fmt \in client.formats, d1, d2, d3 \in Dates :
    /\ now <= d1 /\ d1 <= d2 /\ d2 <= d3
    /\ \E r \in {compressor_post(session, files, fmt, d1, d2, d3)} :
       LET n == Len(r.log.clock)
       IN /\ n < 2 => d2 = d1
          /\ n < 3 => d3 = d2
          /\ session' = r.session
          /\ log' = r.log
          /\ now' = r.log.clock[n]
          /\ UNCHANGED client

premium ==
  /\ log' = Page("premium", "GET", "render")
  /\ UNCHANGED <<session, now, client>>

\* the flag set when the checkout is created
create_premium_session_grants ==
  /\ \E status \in {"redirect_checkout", "error_text"} :
       log' = Page("create_premium_session", "POST", status)
  /\ session' = [session EXCEPT !.premium = TRUE]
  /\ UNCHANGED <<now, client>>

create_premium_session ==
  /\ \E status \in {"redirect_checkout", "error_text"} :
       log' = Page("create_premium_session", "POST", status)
  /\ UNCHANGED <<session, now, client>>

success_premium ==
  /\ session' = [session EXCEPT !.premium = TRUE]
  /\ log' = Page("success_premium", "GET", "render")
  /\ UNCHANGED <<now, client>>

privacy_policy ==
  /\ log' = Page("privacy_policy", "GET", "render")
  /\ UNCHANGED <<session, now, client>>

data_deletion ==
  /\ log' = Page("data_deletion", "GET", "render")
  /\ UNCHANGED <<session, now, client>>

Next ==
  \/ home
  \/ donate
  \/ create_checkout_session
  \/ success_donation
  \/ compressor_GET
  \/ compressor_POST
  \/ premium
  \/ create_premium_session
  \/ success_premium
  \/ privacy_policy
  \/ data_deletion

Spec == Init /\ [][Next]_vars

----------------------------------------------------------------------------
(* Vocabulary of the properties *)

IsPost == log.route = "compressor" /\ log.method = "POST"

\* the ceiling of a tier, from the constants
Ceiling(is_premium) == IF is_premium THEN 50 * MiB ELSE 2 * MiB

HasFlash(msg, i) ==
  \E k \in 1..Len(log.flashes) : log.flashes[k] = [msg |-> msg, file |-> i]

\* the request was not stopped by the body cap, the empty-batch test or
\* the size test
PassedSize ==
  /\ IsPost
  /\ log.status # "413"
  /\ Len(log.files) > 0
  /\ total_size(log.files) <= Ceiling(session.premium)

\* the request reached the archive loop
ReachedLoop == IsPost /\ log.status \in {"archive", "500"}

EndsWith(name, ext) ==
  /\ Len(name) >= Len(ext)
  /\ SubSeq(name, Len(name) - Len(ext) + 1, Len(name)) = ext

----------------------------------------------------------------------------
\* C1: a quota counter never exceeds 2, and a POST /compressor of a
\* non-premium session that passes the size check while the counter of the
\* date check_free_limit reads is already 2 is answered by the redirect to
\* the premium page, without an archive.
C1_QuotaCap ==
  /\ [](\A d \in DOMAIN session.uploads : session.uploads[d] <= 2)
  /\ [][ (PassedSize' /\ ~session.premium)
           => /\ Len(log'.clock) >= 2
              /\ get_uploads(session, log'.clock[2]) >= 2
                   => /\ log'.status = "redirect_premium"
                      /\ log'.entries = <<>>
                      /\ HasFlash("limit", 0)' ]_vars

C1_Witness ==
  /\ PassedSize
  /\ ~session.premium
  /\ log.status = "redirect_premium"
  /\ get_uploads(session, log.clock[2]) = 2
  /\ log.used = 2

----------------------------------------------------------------------------
\* C2 as stated: every POST /compressor whose files' total size exceeds the
\* tier's ceiling is answered by the flashed message and the redirect back
\* to the form, without an archive.
C2_AsStated ==
  (IsPost /\ total_size(log.files) > Ceiling(session.premium))
    => /\ log.status = "redirect_form"
       /\ HasFlash("too_big", 0)
       /\ log.entries = <<>>

\* C2 amended: every POST /compressor whose files' total size exceeds the
\* tier's ceiling is rejected without an archive: by the framework's 413 when the body exceeds the global cap of
\* MAX_CONTENT_LENGTH, by the flashed message and the redirect back to the
\* form otherwise.
C2_OverCeilingRejected ==
  (IsPost /\ total_size(log.files) > Ceiling(session.premium))
    => /\ log.entries = <<>>
       /\ log.status \in {"413", "redirect_form"}
       /\ log.status = "413" <=> content_length(log.files) > 50 * MiB
       /\ log.status = "redirect_form" => HasFlash("too_big", 0)

C2_Witness ==
  /\ IsPost
  /\ total_size(log.files) > Ceiling(session.premium)
  /\ log.status = "redirect_form"
  /\ ~session.premium
  /\ get_uploads(session, now) = 2
  /\ \E i \in 1..Len(log.files) : ~allowed_file(log.files[i].filename)

----------------------------------------------------------------------------
\* C3: the ceiling a POST /compressor applies is 50 MiB if the session's
\* premium flag is true and 2 MiB otherwise, the request is turned away for
\* its size exactly when its total exceeds that ceiling, and a POST made
\* once the flag is set (after GET /success-premium) is tested against
\* 50 MiB.
C3_CeilingMatchesFlag ==
  /\ []( (IsPost /\ log.status # "413" /\ Len(log.files) > 0)
          => /\ log.is_premium = session.premium
             /\ log.size_limit = Ceiling(session.premium)
             /\ log.total_size = total_size(log.files)
             /\ (log.status = "redirect_form")
                  <=> (total_size(log.files) > Ceiling(session.premium)) )
  /\ [][ (session.premium /\ IsPost' /\ log'.status # "413" /\ Len(log'.files) > 0)
          => /\ log'.size_limit = 50 * MiB
             /\ log'.status = "redirect_form" <=> log'.total_size > 50 * MiB ]_vars

\* a premium session gets an archive for a batch of more than 2 MiB
C3_Witness ==
  /\ IsPost
  /\ session.premium
  /\ total_size(log.files) > 2 * MiB
  /\ log.size_limit = 50 * MiB
  /\ log.status = "archive"

----------------------------------------------------------------------------
(* What the archive of a request should hold *)

ConversionRequested == log.format # <<>> /\ log.format # <<"n","o","n","e">>

\* PIL opens the file and has an encoder for the requested format
ConversionSucceeds(f) == f.img /\ upper(log.format) \in PIL_SAVE

\* the numbers of the request's files that passed extension validation
Validated == { i \in 1..Len(log.files) : allowed_file(log.files[i].filename) }

\* the files of the archive's entries
Archived == { log.entries[k].file : k \in 1..Len(log.entries) }

\* C4 as stated: the archive holds exactly the validated files whose
\* conversion, where one was requested, succeeded.
C4_AsStated ==
  (IsPost /\ log.status = "archive")
    => Archived = { i \in Validated :
                      ConversionRequested => ConversionSucceeds(log.files[i]) }

\* C4 amended: the archive holds, in request order and once each, exactly
\* the files that passed extension validation; an entry is re-encoded when a
\* conversion was requested and succeeded, and is the file as uploaded when
\* none was requested or the conversion failed, which is only flashed.
C4_ArchiveIsValidated ==
  (IsPost /\ log.status = "archive")
    => /\ Archived = Validated
       /\ Len(log.entries) = Cardinality(Validated)
       /\ \A k \in 1..(Len(log.entries) - 1) :
            log.entries[k].file < log.entries[k+1].file
       /\ \A k \in 1..Len(log.entries) :
            LET e == log.entries[k]
                ok == ConversionRequested /\ ConversionSucceeds(log.files[e.file])
            IN /\ e.enc = IF ok THEN upper(log.format) ELSE <<>>
               /\ (ConversionRequested /\ ~ok) <=> HasFlash("convert_failed", e.file)

C4_Witness ==
  /\ IsPost
  /\ log.status = "archive"
  /\ ConversionRequested
  /\ \E k \in 1..Len(log.entries) :
       log.entries[k].enc = <<>> /\ HasFlash("convert_failed", log.entries[k].file)
  /\ \E k \in 1..Len(log.entries) : log.entries[k].enc # <<>>

----------------------------------------------------------------------------
\* C5: a batch within the ceiling whose extensions are all allowed, which the
\* quota lets through, yields an archive with one entry per input file, in
\* order, no entry name having a directory component.  (The claim also wants
\* the names distinct and equal to the inputs' base names.)
C5_OneEntryPerFile ==
  (ReachedLoop /\ Validated = 1..Len(log.files))
    => /\ log.status = "archive"
       /\ Len(log.entries) = Len(log.files)
       /\ \A k \in 1..Len(log.entries) :
            /\ log.entries[k].file = k
            /\ rfind(log.entries[k].name, "/") = 0

----------------------------------------------------------------------------
\* C6 as stated: a POST /compressor with a file named *.exe that passes the
\* size and quota checks is rejected with the "not allowed" message and
\* returns no archive.
C6_AsStated ==
  (ReachedLoop /\ \E i \in 1..Len(log.files) :
                    EndsWith(log.files[i].filename, <<".","e","x","e">>))
    => /\ log.status # "archive"
       /\ \E i \in 1..Len(log.files) : HasFlash("not_allowed", i)

\* C6 amended: a file named *.exe is flashed as not allowed and left out of
\* the archive, but the request is not rejected for it: a batch of such files
\* only, which passes the size and quota checks, returns an empty archive.
C6_DisallowedSkipped ==
  /\ (IsPost /\ log.status = "archive")
       => \A i \in 1..Len(log.files) :
            EndsWith(log.files[i].filename, <<".","e","x","e">>)
              => /\ HasFlash("not_allowed", i)
                 /\ i \notin Archived
  /\ (ReachedLoop /\ \A i \in 1..Len(log.files) :
                       EndsWith(log.files[i].filename, <<".","e","x","e">>))
       => /\ log.status = "archive"
          /\ log.entries = <<>>

C6_Witness ==
  /\ IsPost
  /\ log.status = "archive"
  /\ Len(log.files) = 2
  /\ EndsWith(log.files[1].filename, <<".","e","x","e">>)
  /\ HasFlash("not_allowed", 1)
  /\ Archived = {2}

----------------------------------------------------------------------------
\* C7: a POST /compressor made while the premium flag is true is never
\* answered by the quota redirect and leaves every quota counter, and the
\* set of dates that have one, as it was.
C7_PremiumBypassesQuota ==
  [][ (IsPost' /\ session.premium)
        => /\ log'.status # "redirect_premium"
           /\ ~HasFlash("limit", 0)'
           /\ session'.uploads = session.uploads ]_vars

\* a premium session whose counter of today is already 2 gets an archive
C7_Witness ==
  /\ IsPost
  /\ session.premium
  /\ log.status = "archive"
  /\ log.used = 2
  /\ get_uploads(session, now) = 2

----------------------------------------------------------------------------
\* C8: every quota counter is a non-negative integer and no step lowers the
\* counter of any date.
C8_CounterMonotone ==
  /\ [](\A d \in DOMAIN session.uploads : session.uploads[d] \in Nat)
  /\ [][ \A d \in Dates : get_uploads(session', d) >= get_uploads(session, d) ]_vars

C8_Witness ==
  /\ now = 2
  /\ get_uploads(session, 1) = 2
  /\ get_uploads(session, 2) = 1

----------------------------------------------------------------------------
\* C9: the premium flag starts false, only GET /success-premium changes it,
\* and it changes only from false to true.
C9_PremiumOnlyBySuccess ==
  /\ ~session.premium
  /\ [][ session'.premium # session.premium
           => /\ log'.route = "success_premium"
              /\ ~session.premium
              /\ session'.premium ]_vars

C9_Witness ==
  /\ session.premium
  /\ log.route = "success_premium"
  /\ DOMAIN session.uploads # {}

----------------------------------------------------------------------------
\* C10: in a non-premium session a POST /compressor that returns an archive
\* adds exactly 1 to the counter of the date increment_upload_count reads
\* and leaves the other counters alone, whatever the batch; every other
\* request leaves the value of every counter as it was.
C10_OnePerArchive ==
  [][ ~session.premium
        => IF IsPost' /\ log'.status = "archive"
             THEN /\ Len(log'.clock) = 3
                  /\ \A d \in Dates :
                       get_uploads(session', d) =
                         get_uploads(session, d) + (IF d = log'.clock[3] THEN 1 ELSE 0)
             ELSE \A d \in Dates : get_uploads(session', d) = get_uploads(session, d)
    ]_vars

\* the second archive of the day, for a batch of two files of which one
\* was skipped
C10_Witness ==
  /\ IsPost
  /\ ~session.premium
  /\ log.status = "archive"
  /\ Len(log.files) = 2
  /\ Len(log.entries) = 1
  /\ log.used = 1
  /\ get_uploads(session, now) = 2

====
